---- MODULE Spec2Model ----
(***************************************************************************)
(* slog-json: the JSON Drain of slog-rs.                                   *)
(*                                                                         *)
(* The model follows src/lib.rs: a JsonBuilder is configured (newlines,    *)
(* values), built into a Json drain, and Json::log is then called once per *)
(* record.  One call of Json::log is one action; what it does, in order,   *)
(* is computed by the operators below, which thread a call context `c`     *)
(* (the sink, the thread-local TL_BUF, the RefCell borrow counts, the open *)
(* map session and the log of backend writes) through the statements of    *)
(* the source.  A Rust panic is the status "panic": it unwinds, dropping   *)
(* the RefMut guards and running no other statement of the unwound frames. *)
(***************************************************************************)
EXTENDS Integers, Sequences, FiniteSets, TLC

\* ------------------------------------------------------------ bounds
MaxRecords == 2     \* Json::log calls in one run
MaxGroups == 2      \* groups pushed on the builder (add_key_value)

\* ------------------------------------------------------------ values
Levels == {"Critical", "Error", "Warning", "Info", "Debug", "Trace"}

\* A piece of a fmt::Arguments: literal text, or an argument whose Display
\* impl returns Err ("err"), panics ("panic"), or logs again on the same
\* thread ("relog": through this very Json; "reemit": through another
\* serializer, reaching emit_arguments); `caught` tells whether the callback
\* catches the unwinding of that inner call (catch_unwind) and goes on.
Lit(s) == [t |-> "lit", s |-> s, caught |-> FALSE]
ErrPiece == [t |-> "err", s |-> "", caught |-> FALSE]
PanicPiece == [t |-> "panic", s |-> "", caught |-> FALSE]
Relog(caught) == [t |-> "relog", s |-> "", caught |-> caught]
Reemit(caught) == [t |-> "reemit", s |-> "", caught |-> caught]

\* A value source of a key/value pair.
Str(s) == [kind |-> "str", s |-> s, pieces |-> <<>>]
Args(p) == [kind |-> "args", s |-> "", pieces |-> p]
TsValue == [kind |-> "ts", s |-> "", pieces |-> <<>>]
LevelValue == [kind |-> "level", s |-> "", pieces |-> <<>>]
MsgValue == [kind |-> "msg", s |-> "", pieces |-> <<>>]

KVPair(k, v) == [k |-> k, v |-> v]
NoPair == KVPair("", Str(""))

\* The o!(...) of add_default_keys.
DefaultKeys ==
    << KVPair("ts", TsValue), KVPair("level", LevelValue), KVPair("msg", MsgValue) >>

\* chrono::Local::now().to_rfc3339()
Now == "T"

\* ------------------------------------------------------------ inputs
\* Custom groups handed to add_key_value.
CustomGroups == { << KVPair("a", Str("9")) >> }

\* A log call: the record (rinfo: level, msg, the record's own pairs) and the
\* pairs of the logger's ancestors (logger_values), as the framework hands them.
Rec(level, msg, kv) == [level |-> level, msg |-> msg, kv |-> kv]
Call(rinfo, logger_values) == [rinfo |-> rinfo, logger_values |-> logger_values]
Calls ==
    { Call(Rec("Critical", << Lit("hi") >>, <<>>), <<>>),
      Call(Rec("Error", << Lit("x"), ErrPiece, Lit("y") >>,
               << KVPair("a", Str("1")) >>),
           << KVPair("a", Str("0")) >>),
      Call(Rec("Warning", << Lit("w"), PanicPiece >>,
               << KVPair("b", Args(<< Lit("u"), ErrPiece >>)) >>),
           <<>>),
      Call(Rec("Info", << Lit("c"), Relog(TRUE), Lit("d") >>,
               << KVPair("b", Args(<< Lit("v"), Reemit(TRUE), Lit("z") >>)) >>),
           << KVPair("a", Str("0")) >>),
      Call(Rec("Debug", << Lit("e"), Reemit(FALSE) >>,
               << KVPair("b", Args(<< Lit("q"), Relog(FALSE) >>)) >>),
           <<>>),
      Call(Rec("Trace", << Lit("hi") >>,
               << KVPair("a", Str("1")), KVPair("a", Args(<< Lit("2") >>)) >>),
           << KVPair("a", Str("0")), KVPair("b", Str("0")) >>) }

\* What a re-entrant callback logs.
InnerRecord == Rec("Info", << Lit("i") >>, <<>>)
InnerArgs == << Lit("i") >>

\* ------------------------------------------------------------ state
VARIABLES
    pc,          \* "builder": a JsonBuilder; "json": the built Json drain
    newlines,    \* JsonBuilder.newlines / Json.newlines
    values,      \* JsonBuilder.values / Json.values: Vec<OwnedKVList>
    ops,         \* the group-adding builder methods called so far
    sink,        \* what Json.io has accepted, one token per backend write
    otherSink,   \* what a re-entrant emit_arguments wrote through its own serializer
    buf,         \* TL_BUF: the thread-local String
    tlBorrow,    \* RefMut guards alive on TL_BUF
    ioBorrow,    \* RefMut guards alive on Json.io
    ncalls,      \* Json::log calls made
    last         \* what the last Json::log call did

vars == << pc, newlines, values, ops, sink, otherSink, buf, tlBorrow, ioBorrow,
           ncalls, last >>

\* ------------------------------------------------------------ helpers
Max(a, b) == IF a >= b THEN a ELSE b

RECURSIVE Flatten(_)
\* The pairs of a Vec<OwnedKVList>, group after group (the for loop of log).
Flatten(groups) ==
    IF groups = <<>> THEN <<>> ELSE Head(groups) \o Flatten(Tail(groups))

\* Faulty variant: two severities share a code.
level_to_string_mixed(level) ==
    CASE level = "Critical" -> "CRIT"
      [] level = "Error" -> "ERRO"
      [] level = "Warning" -> "WARN"
      [] level = "Info" -> "INFO"
      [] level = "Debug" -> "DEBG"
      [] level = "Trace" -> "DEBG"

\* slog::Level -> its short name.
level_to_string(level) ==
    CASE level = "Critical" -> "CRIT"
      [] level = "Error" -> "ERRO"
      [] level = "Warning" -> "WARN"
      [] level = "Info" -> "INFO"
      [] level = "Debug" -> "DEBG"
      [] level = "Trace" -> "TRCE"

\* Faulty variant: the cell hands out a second guard.
borrow_mut_unchecked(held) == TRUE

\* RefCell::borrow_mut succeeds only when no other guard is alive; otherwise
\* it panics (BorrowMutError).
borrow_mut(held) == held = 0

\* Faulty variant: an Err is dropped instead of returned.
try_errors_ignored(c) == c.status = "panic"

\* try!: the enclosing function returns here when the result is an Err (and a
\* panic unwinds through it).
try(c) == c.status # "ok"

\* String::clear
clear(s) == ""

\* ------------------------------------------------------------ backend
\* Only({ e(x) : x \in {v} }) is e(v) with v evaluated once: the statements of
\* a function body are chained this way, each binding the context it returns.
Only(S) == CHOOSE x \in S : TRUE

\* The call context of one Json::log.
NewCall(fault) ==
    [ buf |-> buf, sink |-> sink, otherSink |-> otherSink, target |-> "self",
      mapState |-> "none", session |-> <<>>, trace |-> <<>>,
      nwrites |-> 0, fault |-> fault, wrote |-> FALSE,
      tlHeld |-> tlBorrow, ioHeld |-> ioBorrow, maxHeld |-> tlBorrow,
      status |-> "ok", attempts |-> <<>>, emitStarts |-> <<>>,
      emitReturns |-> <<>> ]

Event(op, k, v, src, c) ==
    [op |-> op, k |-> k, v |-> v, src |-> src, during |-> c.mapState, ok |-> TRUE]

\* One write of the serde_json serializer (or of io.write_all) to the sink:
\* the c.fault-th write of the call is the one the sink refuses.
BackendWrite(c, ev, tok) ==
    IF c.target = "other"
    THEN [c EXCEPT !.otherSink = Append(@, tok), !.wrote = TRUE]
    ELSE IF c.nwrites + 1 = c.fault
         THEN [c EXCEPT !.nwrites = @ + 1, !.wrote = FALSE, !.status = "err",
                        !.trace = Append(@, [ev EXCEPT !.ok = FALSE])]
         ELSE [c EXCEPT !.nwrites = @ + 1, !.wrote = TRUE,
                        !.trace = Append(@, ev), !.sink = Append(@, tok)]

\* ------------------------------------------------------------ SerdeSerializer
SerdeSerializer_start(c, len) ==
    Only({ IF c1.wrote
           THEN [c1 EXCEPT !.mapState = "open", !.session = <<>>]
           ELSE c1 :
           c1 \in { BackendWrite(c, Event("serialize_map", "", len, NoPair, c), "{") } })

SerdeSerializer_end(c) ==
    Only({ IF c1.wrote THEN [c1 EXCEPT !.mapState = "closed"] ELSE c1 :
           c1 \in { BackendWrite(c, Event("end", "", "", NoPair, c), "}") } })

\* Faulty variant: a key the session already holds is not written again.
impl_m_dedup(c, key, val, src) ==
    IF \E i \in DOMAIN c.session : c.session[i].k = key
    THEN c
    ELSE Only({ IF c1.wrote /\ c.target = "self"
                THEN [c1 EXCEPT !.session =
                                  Append(@, [k |-> key, v |-> val, src |-> src])]
                ELSE c1 :
                c1 \in { BackendWrite(c, Event("serialize_entry", key, val, src, c),
                                      "e") } })

\* impl_m!: one serialize_entry on the held map session.
impl_m(c, key, val, src) ==
    Only({ IF c1.wrote /\ c.target = "self"
           THEN [c1 EXCEPT !.session = Append(@, [k |-> key, v |-> val, src |-> src])]
           ELSE c1 :
           c1 \in { BackendWrite(c, Event("serialize_entry", key, val, src, c), "e") } })

emit_str(c, key, val, src) == impl_m(c, key, val, src)

RECURSIVE write_fmt(_, _)
RECURSIVE emit_arguments(_, _, _, _)
RECURSIVE Value_serialize(_, _, _)
RECURSIVE KV_serialize(_, _, _)
RECURSIVE Json_log(_, _, _)
RECURSIVE Reenter(_, _)

\* A callback of a lazily formatted value logs again on the same thread.
Reenter(c, p) ==
    Only({ LET att == [ kind |-> p.t, outcome |-> inner.status,
                        bufSame |-> inner.buf = c.buf,
                        sinkSame |-> inner.sink = c.sink
                                     /\ inner.otherSink = c.otherSink ]
           IN IF inner.status = "panic" /\ ~p.caught
              THEN [inner EXCEPT !.attempts = Append(@, att), !.target = c.target]
              ELSE [inner EXCEPT !.attempts = Append(@, att), !.target = c.target,
                                 !.status = c.status] :
           inner \in { IF p.t = "relog"
                       THEN Json_log(c, InnerRecord, <<>>)
                       ELSE Only({ emit_arguments(c1, "k", InnerArgs, NoPair) :
                                   c1 \in { [c EXCEPT !.target = "other"] } }) } })

\* buf.write_fmt(*val): the pieces are rendered into TL_BUF one after the
\* other; an argument whose Display fails stops the rendering with what was
\* written so far left in the buffer.
write_fmt(c, pieces) ==
    IF pieces = <<>> THEN c
    ELSE Only({ IF c1.status \in {"fmterr", "panic"}
                THEN c1
                ELSE write_fmt(c1, Tail(pieces)) :
                c1 \in { LET p == Head(pieces)
                         IN CASE p.t = "lit" -> [c EXCEPT !.buf = @ \o p.s]
                              [] p.t = "err" -> [c EXCEPT !.status = "fmterr"]
                              [] p.t = "panic" -> [c EXCEPT !.status = "panic"]
                              [] OTHER -> Reenter(c, p) } })

\* The tail of emit_arguments once the value is rendered: the entry write,
\* buf.clear(), and the return of the write's result.
emit_rendered(c, key, src, held) ==
    Only({ [c4 EXCEPT !.tlHeld = held, !.emitReturns = Append(@, c4.buf)] :
           c4 \in { [c3 EXCEPT !.buf = clear(@)] :
                    c3 \in { impl_m(c, key, c.buf, src) } } })

emit_arguments(c, key, val, src) ==
    IF ~borrow_mut(c.tlHeld)
    THEN [c EXCEPT !.status = "panic"]
    ELSE Only({ IF c2.status \in {"fmterr", "panic"}
                THEN \* unwrap() panics, or the callback did: the guard is
                     \* dropped by the unwinding, buf.clear() is not reached
                     [c2 EXCEPT !.status = "panic", !.tlHeld = c.tlHeld]
                ELSE emit_rendered(c2, key, src, c.tlHeld) :
                c2 \in { write_fmt(c1, val) :
                         c1 \in { [c EXCEPT !.tlHeld = @ + 1,
                                            !.maxHeld = Max(@, c.tlHeld + 1),
                                            !.emitStarts = Append(@, c.buf)] } } })

\* Value::serialize of one pair: which emit_* the value source calls.
Value_serialize(c, rinfo, pair) ==
    CASE pair.v.kind = "str" -> emit_str(c, pair.k, pair.v.s, pair)
      [] pair.v.kind = "ts" -> emit_str(c, pair.k, Now, pair)
      [] pair.v.kind = "level" ->
            emit_str(c, pair.k, level_to_string(rinfo.level), pair)
      [] pair.v.kind = "msg" -> emit_arguments(c, pair.k, rinfo.msg, pair)
      [] pair.v.kind = "args" -> emit_arguments(c, pair.k, pair.v.pieces, pair)

\* try!(kv.serialize(rinfo, &mut serializer)) over the pairs of a group.
KV_serialize(c, rinfo, pairs) ==
    IF pairs = <<>> \/ try(c) THEN c
    ELSE Only({ KV_serialize(c1, rinfo, Tail(pairs)) :
                c1 \in { Value_serialize(c, rinfo, Head(pairs)) } })

\* ------------------------------------------------------------ Json::log
log_start(c) == SerdeSerializer_start(c, "None")

log_values(c, rinfo, logger_values) ==
    IF try(c) THEN c
    ELSE Only({ KV_serialize(c2, rinfo, rinfo.kv) :
                c2 \in { KV_serialize(c1, rinfo, logger_values) :
                         c1 \in { KV_serialize(c, rinfo, Flatten(values)) } } })

\* Faulty variant: the session is never closed.
log_end_unclosed(c) == c

log_end(c) == IF try(c) THEN c ELSE SerdeSerializer_end(c)

\* Faulty variant: the newline is written whatever the flag says.
log_newline_always(c) ==
    IF try(c) THEN c
    ELSE BackendWrite(c, Event("write_all", "", "\n", NoPair, c), "\n")

log_newline(c) ==
    IF try(c) \/ ~newlines THEN c
    ELSE BackendWrite(c, Event("write_all", "", "\n", NoPair, c), "\n")

Json_log(c, rinfo, logger_values) ==
    IF ~borrow_mut(c.ioHeld)
    THEN [c EXCEPT !.status = "panic"]
    ELSE Only({ [c4 EXCEPT !.ioHeld = c.ioHeld] :
                c4 \in { log_newline(c3) :
                         c3 \in { log_end(c2) :
                                  c2 \in { log_values(c1, rinfo, logger_values) :
                                           c1 \in { log_start(c0) :
                                                    c0 \in { [c EXCEPT !.ioHeld = @ + 1] } } } } } })

\* ------------------------------------------------------------ actions
\* Faulty variant: the builder starts with the default keys.
JsonBuilder_new_with_defaults == [newlines |-> TRUE, values |-> << DefaultKeys >>]

JsonBuilder_new == [newlines |-> TRUE, values |-> <<>>]

NoCall ==
    [ rinfo |-> InnerRecord, logger_values |-> <<>>, bufBefore |-> "",
      sinkBefore |-> <<>>, trace |-> <<>>, session |-> <<>>, mapState |-> "none",
      result |-> "none", attempts |-> <<>>, maxHeld |-> 0, emitStarts |-> <<>>,
      emitReturns |-> <<>> ]

Init ==
    /\ pc = "builder"
    /\ newlines = JsonBuilder_new.newlines
    /\ values = JsonBuilder_new.values
    /\ ops = <<>>
    /\ sink = <<>>
    /\ otherSink = <<>>
    /\ buf = ""
    /\ tlBorrow = 0
    /\ ioBorrow = 0
    /\ ncalls = 0
    /\ last = NoCall

set_newlines(enabled) ==
    /\ pc = "builder"
    /\ newlines' = enabled
    /\ UNCHANGED << pc, values, ops, sink, otherSink, buf, tlBorrow, ioBorrow,
                    ncalls, last >>

push_values(method, group) ==
    /\ pc = "builder"
    /\ Len(values) < MaxGroups
    /\ values' = Append(values, group)
    /\ ops' = Append(ops, method)
    /\ UNCHANGED << pc, newlines, sink, otherSink, buf, tlBorrow, ioBorrow,
                    ncalls, last >>

add_key_value(group) == push_values("add_key_value", group)

add_default_keys == push_values("add_default_keys", DefaultKeys)

build ==
    /\ pc = "builder"
    /\ pc' = "json"
    /\ UNCHANGED << newlines, values, ops, sink, otherSink, buf, tlBorrow,
                    ioBorrow, ncalls, last >>

\* Json::default(io): JsonBuilder::new(io).add_default_keys().build()
Json_default ==
    /\ pc = "builder"
    /\ ops = <<>>
    /\ newlines = JsonBuilder_new.newlines
    /\ values' = Append(JsonBuilder_new.values, DefaultKeys)
    /\ ops' = << "add_default_keys" >>
    /\ pc' = "json"
    /\ UNCHANGED << newlines, sink, otherSink, buf, tlBorrow, ioBorrow,
                    ncalls, last >>

\* The writes a call makes when nothing fails.
NumWrites(rinfo, logger_values) ==
    Len(Flatten(values)) + Len(logger_values) + Len(rinfo.kv) + 2
      + (IF newlines THEN 1 ELSE 0)

\* One Json::log call; `fault` is the write the sink refuses (0: none).
Log(rinfo, logger_values, fault) ==
    /\ pc = "json"
    /\ ncalls < MaxRecords
    /\ last.result = "none"
    /\ \E r \in { Json_log(c, rinfo, logger_values) : c \in { NewCall(fault) } } :
          /\ sink' = r.sink
          /\ otherSink' = r.otherSink
          /\ buf' = r.buf
          /\ tlBorrow' = r.tlHeld
          /\ ioBorrow' = r.ioHeld
          /\ last' = [ rinfo |-> rinfo, logger_values |-> logger_values,
                       bufBefore |-> buf, sinkBefore |-> sink,
                       trace |-> r.trace, session |-> r.session,
                       mapState |-> r.mapState, result |-> r.status,
                       attempts |-> r.attempts, maxHeld |-> r.maxHeld,
                       emitStarts |-> r.emitStarts,
                       emitReturns |-> r.emitReturns ]
    /\ ncalls' = ncalls + 1
    /\ UNCHANGED << pc, newlines, values, ops >>

\* The caller has looked at the io::Result of the call and drops it.
drop_result ==
    /\ pc = "json"
    /\ last.result # "none"
    /\ last' = NoCall
    /\ UNCHANGED << pc, newlines, values, ops, sink, otherSink, buf, tlBorrow,
                    ioBorrow, ncalls >>

Next ==
    \/ \E enabled \in BOOLEAN : set_newlines(enabled)
    \/ \E group \in CustomGroups : add_key_value(group)
    \/ add_default_keys
    \/ build
    \/ Json_default
    \/ \E call \in Calls :
         \E fault \in 0 .. NumWrites(call.rinfo, call.logger_values) :
            Log(call.rinfo, call.logger_values, fault)
    \/ drop_result

Spec == Init /\ [][Next]_vars

\* ------------------------------------------------------------ properties
Returned == last.result # "none"

\* The pairs the framework hands the emitter in one call, in order.
Handed == Flatten(values) \o last.logger_values \o last.rinfo.kv

IsEntryEvent(e) == e.op = "serialize_entry"
EntryEvents == SelectSeq(last.trace, IsEntryEvent)
Indices(op) == { i \in DOMAIN last.trace : last.trace[i].op = op }

\* What the call appended to the sink.
Delta == SubSeq(sink, Len(last.sinkBefore) + 1, Len(sink))
Newlines(seq) == Cardinality({ i \in DOMAIN seq : seq[i] = "\n" })

IsLazy(pair) == pair.v.kind \in {"msg", "args"}
ArgsOf(pair) == IF pair.v.kind = "msg" THEN last.rinfo.msg ELSE pair.v.pieces
HasReentry(pieces) == \E i \in DOMAIN pieces : pieces[i].t \in {"relog", "reemit"}

RECURSIVE Format(_)
\* format!("{}", args): the text of the pieces, one after the other.
Format(pieces) ==
    IF pieces = <<>> THEN ""
    ELSE (IF Head(pieces).t = "lit" THEN Head(pieces).s ELSE "") \o Format(Tail(pieces))

DefaultEntries ==
    { i \in DOMAIN last.session : last.session[i].src.v.kind \in {"ts", "level", "msg"} }
AddDefaultCalls == { i \in DOMAIN ops : ops[i] = "add_default_keys" }

\* C1: a call in which nothing fails writes exactly one entry per pair handed
\* to the emitter, in the order configured groups, ancestors, record; a key
\* that occurs twice is written twice.
C1_EntriesInOrder ==
    last.result = "ok" =>
        /\ Len(last.session) = Len(Handed)
        /\ \A i \in DOMAIN last.session :
              /\ last.session[i].src = Handed[i]
              /\ last.session[i].k = Handed[i].k
        /\ Len(EntryEvents) = Len(Handed)
        /\ \A i \in DOMAIN EntryEvents :
              EntryEvents[i].src = Handed[i] /\ EntryEvents[i].ok

C1_Witness ==
    /\ last.result = "ok"
    /\ Len(values) = 2 /\ values[1] # values[2]
    /\ last.logger_values # <<>> /\ last.rinfo.kv # <<>>
    /\ \E i, j \in DOMAIN last.session : i < j /\ last.session[i].k = last.session[j].k

\* C2: when a write fails (open, entry, close or newline) the call returns a
\* failure and the failing write is the last one of the call: no later entry,
\* no close, no newline.
C2_ShortCircuit ==
    \A i \in DOMAIN last.trace :
        ~last.trace[i].ok =>
            /\ last.result = "err"
            /\ i = Len(last.trace)
            /\ Len(sink) = Len(last.sinkBefore) + i - 1
            /\ last.trace[i].op = "serialize_entry" => last.mapState = "open"
            /\ last.trace[i].op # "write_all" => Newlines(Delta) = 0

C2_Witness ==
    /\ \E i \in DOMAIN last.trace :
          ~last.trace[i].ok /\ last.trace[i].op = "serialize_entry"
    /\ Len(EntryEvents) >= 2
    /\ Len(EntryEvents) < Len(Handed)
    /\ newlines

\* C3: with the newline flag on, a call that succeeds appends exactly one
\* newline, as its last write and right after the closing of its document,
\* and no newline is ever written elsewhere; with the flag off no newline is
\* ever written.
C3_NewlinePerRecord ==
    /\ ~newlines => Newlines(sink) = 0
    /\ \A i \in DOMAIN sink : sink[i] = "\n" => (i > 1 /\ sink[i - 1] = "}")
    /\ Returned =>
          Newlines(Delta) = (IF newlines /\ last.result = "ok" THEN 1 ELSE 0)
    /\ (newlines /\ last.result = "ok") => sink[Len(sink)] = "\n"

C3_Witness ==
    /\ newlines /\ last.result = "ok"
    /\ Newlines(last.sinkBefore) = 1
    /\ Newlines(sink) = 2

\* C4 (as amended): the default fields are off by default; a call emits the
\* three fields ts, level, msg once per add_default_keys call made on the
\* builder (Json::default makes one), and none when none was made.
C4_DefaultsOnlyWhenAdded ==
    last.result = "ok" =>
        /\ Cardinality(DefaultEntries) = 3 * Cardinality(AddDefaultCalls)
        /\ \A i \in DefaultEntries : last.session[i].k \in {"ts", "level", "msg"}

C4_Witness ==
    /\ last.result = "ok"
    /\ ops = <<>>
    /\ last.session # <<>>

\* C4 (as stated): an encoder built without add_default_keys emits ts, level
\* and msg for every record.
C4_DefaultsOnByDefault ==
    (last.result = "ok" /\ AddDefaultCalls = {}) => Cardinality(DefaultEntries) = 3

\* C5: the text written for a lazily formatted value is exactly the value
\* formatted directly, whatever was emitted before on the same thread.
C5_LazyTextIsFormat ==
    \A i \in DOMAIN last.session :
        IsLazy(last.session[i].src) =>
            last.session[i].v = Format(ArgsOf(last.session[i].src))

\* C6: TL_BUF is empty whenever emit_arguments returns, and so is empty
\* between any two emissions on the thread.
C6_BufferEmptyBetweenEmissions ==
    /\ \A i \in DOMAIN last.emitReturns : last.emitReturns[i] = ""
    /\ buf = ""

\* C7: after a rendering that failed part-way, the next emit_arguments on the
\* thread starts from an empty TL_BUF.
C7_EmissionStartsClean ==
    \A i \in DOMAIN last.emitStarts : last.emitStarts[i] = ""

\* C8: the level field carries the four-letter code of the record's
\* severity, for each of the six severities.
C8_LevelCodes ==
    \A i \in DOMAIN last.session :
        last.session[i].src.v.kind = "level" =>
            /\ last.rinfo.level \in Levels
            /\ last.rinfo.level = "Critical" => last.session[i].v = "CRIT"
            /\ last.rinfo.level = "Error" => last.session[i].v = "ERRO"
            /\ last.rinfo.level = "Warning" => last.session[i].v = "WARN"
            /\ last.rinfo.level = "Info" => last.session[i].v = "INFO"
            /\ last.rinfo.level = "Debug" => last.session[i].v = "DEBG"
            /\ last.rinfo.level = "Trace" => last.session[i].v = "TRCE"

C8_Witness ==
    /\ last.result = "ok"
    /\ last.rinfo.level = "Trace"
    /\ \E i \in DOMAIN last.session :
          last.session[i].k = "level" /\ last.session[i].v = "TRCE"

\* C9: a call opens one map session, with no declared length, as its first
\* write; entries are written only to that session while it is open; when
\* every entry was written the session is closed once, after the last entry
\* and before the newline; a failure of the close is the call's failure.
C9_OneSessionPerCall ==
    Returned =>
        /\ Indices("serialize_map") = {1}
        /\ last.trace[1].v = "None"
        /\ \A i \in Indices("serialize_entry") :
              last.trace[1].ok /\ last.trace[i].during = "open"
        /\ Cardinality(Indices("end")) <= 1
        /\ (last.trace[1].ok /\ Len(last.session) = Len(Handed)) =>
              Indices("end") = { Len(Handed) + 2 }
        /\ \A i \in Indices("end") :
              /\ \A j \in Indices("serialize_entry") : j < i /\ last.trace[j].ok
              /\ ~last.trace[i].ok => last.result = "err"
        /\ \A i \in Indices("write_all") :
              /\ i = Len(last.trace)
              /\ (i - 1) \in Indices("end") /\ last.trace[i - 1].ok
        /\ last.result = "ok" => last.mapState = "closed"

C9_Witness ==
    /\ last.result = "ok"
    /\ newlines
    /\ Len(last.session) >= 2
    /\ Indices("end") = { Len(last.trace) - 1 }

\* C10: TL_BUF never has two guards alive; a callback that logs again from
\* inside emit_arguments has its inner call panic on the held borrow, with
\* the buffer and the sinks untouched, so the text of the outer emission is
\* the text of its own pieces.
C10_NoSharedBuffer ==
    /\ tlBorrow = 0 /\ ioBorrow = 0
    /\ last.maxHeld <= 1
    /\ otherSink = <<>>
    /\ \A i \in DOMAIN last.attempts :
          /\ last.attempts[i].outcome = "panic"
          /\ last.attempts[i].bufSame
          /\ last.attempts[i].sinkSame
    /\ last.bufBefore = "" =>
          \A i \in DOMAIN last.session :
              (IsLazy(last.session[i].src) /\ HasReentry(ArgsOf(last.session[i].src)))
                  => last.session[i].v = Format(ArgsOf(last.session[i].src))

C10_Witness ==
    /\ last.result = "ok"
    /\ Len(last.attempts) = 2
    /\ \E i \in DOMAIN last.session :
          /\ IsLazy(last.session[i].src)
          /\ HasReentry(ArgsOf(last.session[i].src))
          /\ last.session[i].v = "cd"

====
